---- MODULE Spec2Model ----
(***************************************************************************)
(* DocVerify: the document registry of src/DocVerify/src/index.ts.         *)
(*                                                                         *)
(* The state is the StableBTreeMap docStorage, the host clock read by      *)
(* time(), and the number of identifiers uuidv4() has handed out.  Each    *)
(* express route handler is one action; a request runs to completion.      *)
(*                                                                         *)
(* A JSON object (a request body, a Document) is a function from field     *)
(* names to values whose DOMAIN is the set of fields the object carries,   *)
(* so the object spread {...a, ...b} is b @@ a.  A Date is its epoch       *)
(* millisecond count, which is what the JSON form of a Date carries.       *)
(* Identifiers are integers: uuidv4() returns 1, 2, 3, ... and EmptyId     *)
(* stands for the empty string.                                            *)
(***************************************************************************)
EXTENDS Integers, Sequences, FiniteSets, TLC

(* ------------------------------ bounds -------------------------------- *)

\* number of requests the service handles
MaxRequests == 4

\* the host clock runs from 0 to MaxTicks ticks of one and a half milliseconds
MaxTicks == 1

(* ----------------------------- constants ------------------------------ *)

\* getCurrentDate divides the nanosecond clock by 1000_000
NanosPerMilli == 1000000

\* the value of updatedAt in a freshly created Document (JSON null)
NULL == 0 - 1

\* the empty string, as an identifier
EmptyId == 0

\* the clock values the model lets time() return are multiples of TickNanos
TickNanos == 3 * (NanosPerMilli \div 2)

\* timestamps a client may put in a body (epoch milliseconds)
ClientDates == {7}

(* ------------------------- the collaborators -------------------------- *)

\* StableBTreeMap<string, Document>: a function from the keys it holds
EmptyMap == [k \in {} |-> k]

insert(map, key, value) == (key :> value) @@ map

\* get: the option is a sequence of length 0 or 1
get(map, key) == IF key \in DOMAIN map THEN <<map[key]>> ELSE <<>>

remove(map, key) == [k \in (DOMAIN map) \ {key} |-> map[k]]

\* values(): the records in key order
RECURSIVE valuesFrom(_, _)
valuesFrom(map, keys) ==
  IF keys = {} THEN <<>>
  ELSE LET k == CHOOSE m \in keys : \A o \in keys : m <= o
       IN  <<map[k]>> \o valuesFrom(map, keys \ {k})

values(map) == valuesFrom(map, DOMAIN map)

\* uuidv4(): the n-th call returns an identifier no earlier call returned
uuidv4(issued) == issued + 1

\* getCurrentDate(): new Date(Number(time()) / 1000_000), whole milliseconds
getCurrentDate(timestamp) == timestamp \div NanosPerMilli

(* ------------------------------ inputs -------------------------------- *)

EmptyBody == [f \in {} |-> f]

\* identifiers a client can put in a body: the empty string and the ones
\* issued so far
ClientIds(issued) == {EmptyId} \cup (1..issued)

\* path parameters of /documents/:id, a non-empty path segment: the
\* identifiers issued so far and one that was never issued
RequestIds(issued) == 1..(issued + 1)

\* the body of the specification's scenario
ScenarioBody == [name |-> "A", hash |-> "h1", owner |-> "o1"]

\* request bodies: none, the scenario's, and one field of each kind
Bodies(issued) ==
  {EmptyBody, ScenarioBody}
    \cup { "id" :> i : i \in ClientIds(issued) }
    \cup { "status" :> "authenticated" }
    \cup { "createdAt" :> d : d \in ClientDates }
    \cup { "updatedAt" :> d : d \in ClientDates }

(* ------------------------------- state -------------------------------- *)

VARIABLES
  docStorage,   \* the StableBTreeMap
  uuidCount,    \* identifiers issued by uuidv4() so far
  clock,        \* the last value time() returned, in nanoseconds
  res,          \* the response to the last request
  requests,     \* number of requests handled so far
  again,        \* the last two requests were the same successful Update
  lastWritten   \* per id, the last record a Create or Update returned for it

vars == <<docStorage, uuidCount, clock, res, requests, again, lastWritten>>

NoResponse == [op |-> "none"]

\* time(): the clock never runs backwards
Nows == { t \in { clock + d * TickNanos : d \in 0..MaxTicks } : t <= MaxTicks * TickNanos }

Init ==
  /\ docStorage = EmptyMap
  /\ uuidCount = 0
  /\ clock = 0
  /\ res = NoResponse
  /\ requests = 0
  /\ again = FALSE
  /\ lastWritten = EmptyMap

(* ------------------------------ handlers ------------------------------ *)

\* { id: uuidv4(), createdAt: getCurrentDate(), updatedAt: null,
\*   status: "pending", ...req.body }
NewDocument(id, now, body) ==
  body @@ [id |-> id, createdAt |-> getCurrentDate(now), updatedAt |-> NULL,
           status |-> "pending"]

\* POST /documents
Create(body, now) ==
  /\ LET document == NewDocument(uuidv4(uuidCount), now, body)
     IN  /\ docStorage' = insert(docStorage, document.id, document)
         /\ res' = [op |-> "create", reqBody |-> body, status |-> 200,
                    body |-> document]
         /\ lastWritten' = insert(lastWritten, document.id, document)
  /\ uuidCount' = uuidv4(uuidCount)
  /\ clock' = now
  /\ again' = FALSE

\* GET /documents
List ==
  /\ res' = [op |-> "list", status |-> 200, body |-> values(docStorage)]
  /\ again' = FALSE
  /\ UNCHANGED <<docStorage, uuidCount, clock, lastWritten>>

\* the plain-text message of a not-found response
NotFound(text, documentId) == [message |-> text, id |-> documentId]

\* GET /documents/:id
Get(documentId) ==
  /\ LET documentOpt == get(docStorage, documentId)
     IN  IF documentOpt = <<>>
         THEN res' = [op |-> "get", id |-> documentId, status |-> 404,
                      body |-> NotFound("Document not found.", documentId)]
         ELSE res' = [op |-> "get", id |-> documentId, status |-> 200,
                      body |-> documentOpt[1]]
  /\ again' = FALSE
  /\ UNCHANGED <<docStorage, uuidCount, clock, lastWritten>>

\* a merge in which the stored record wins over the body
UpdatedDocumentStoredWins(document, body, now) ==
  ("updatedAt" :> getCurrentDate(now)) @@ document @@ body

\* a merge that stamps createdAt as well as updatedAt
UpdatedDocumentRestamped(document, body, now) ==
  ("updatedAt" :> getCurrentDate(now)) @@ ("createdAt" :> getCurrentDate(now))
    @@ body @@ document

\* { ...document, ...req.body, updatedAt: getCurrentDate() }
UpdatedDocument(document, body, now) ==
  ("updatedAt" :> getCurrentDate(now)) @@ body @@ document

\* the response r answered a successful Update of documentId with this body
SameUpdate(r, documentId, body) ==
  /\ r.op = "update"
  /\ r.status = 200
  /\ r.id = documentId
  /\ r.reqBody = body

\* an Update that stores the body under the id when no record exists
UpdateUpsert(documentId, body, now) ==
  /\ LET documentOpt == get(docStorage, documentId)
         document == IF documentOpt = <<>> THEN [id |-> documentId]
                     ELSE documentOpt[1]
         updatedDocument == UpdatedDocument(document, body, now)
     IN  /\ docStorage' = insert(docStorage, document.id, updatedDocument)
         /\ res' = [op |-> "update", id |-> documentId, reqBody |-> body,
                    status |-> 200, body |-> updatedDocument]
         /\ lastWritten' = insert(lastWritten, documentId, updatedDocument)
         /\ clock' = now
         /\ again' = SameUpdate(res, documentId, body)
  /\ UNCHANGED uuidCount

\* PUT /documents/:id
Update(documentId, body, now) ==
  /\ LET documentOpt == get(docStorage, documentId)
     IN  IF documentOpt = <<>>
         THEN /\ res' = [op |-> "update", id |-> documentId, reqBody |-> body,
                         status |-> 400,
                         body |-> NotFound("Couldn't update document. Not found.",
                                           documentId)]
              /\ again' = FALSE
              /\ UNCHANGED <<docStorage, clock, lastWritten>>
         ELSE LET document == documentOpt[1]
                  updatedDocument == UpdatedDocument(document, body, now)
              IN  /\ docStorage' = insert(docStorage, document.id, updatedDocument)
                  /\ res' = [op |-> "update", id |-> documentId, reqBody |-> body,
                             status |-> 200, body |-> updatedDocument]
                  /\ lastWritten' = insert(lastWritten, documentId, updatedDocument)
                  /\ clock' = now
                  /\ again' = SameUpdate(res, documentId, body)
  /\ UNCHANGED uuidCount

\* a Delete that reads the record and leaves it in the map
DeleteKeeps(documentId) ==
  /\ LET deletedDocument == get(docStorage, documentId)
     IN  IF deletedDocument = <<>>
         THEN res' = [op |-> "delete", id |-> documentId, status |-> 400,
                      body |-> NotFound("Couldn't delete document. Not found.",
                                        documentId)]
         ELSE res' = [op |-> "delete", id |-> documentId, status |-> 200,
                      body |-> deletedDocument[1]]
  /\ again' = FALSE
  /\ UNCHANGED <<docStorage, lastWritten, uuidCount, clock>>

\* DELETE /documents/:id
Delete(documentId) ==
  /\ LET deletedDocument == get(docStorage, documentId)
     IN  /\ docStorage' = remove(docStorage, documentId)
         /\ IF deletedDocument = <<>>
            THEN res' = [op |-> "delete", id |-> documentId, status |-> 400,
                         body |-> NotFound("Couldn't delete document. Not found.",
                                           documentId)]
            ELSE res' = [op |-> "delete", id |-> documentId, status |-> 200,
                         body |-> deletedDocument[1]]
  /\ lastWritten' = remove(lastWritten, documentId)
  /\ again' = FALSE
  /\ UNCHANGED <<uuidCount, clock>>

\* one more request has been handled
Handled ==
  /\ requests < MaxRequests
  /\ requests' = requests + 1

Next ==
  \/ Handled /\ \E body \in Bodies(uuidCount), now \in Nows : Create(body, now)
  \/ Handled /\ List
  \/ Handled /\ \E documentId \in RequestIds(uuidCount) : Get(documentId)
  \/ Handled /\ \E documentId \in RequestIds(uuidCount), body \in Bodies(uuidCount),
                    now \in Nows : Update(documentId, body, now)
  \/ Handled /\ \E documentId \in RequestIds(uuidCount) : Delete(documentId)

Spec == Init /\ [][Next]_vars

(* ------------------------------ properties ---------------------------- *)

\* the step just taken answered a request of this kind
Answered(op) == res'.op = op

\* the step just taken answered a request of this kind with a record
Succeeded(op) == res'.op = op /\ res'.status = 200

\* every record of the map before the step is still there, unchanged
OthersKept(except) ==
  \A k \in (DOMAIN docStorage) \ except :
    k \in DOMAIN docStorage' /\ docStorage'[k] = docStorage[k]

\* C1: every Create returns a non-empty id that no stored record has, replaces
\* no stored record, and makes the store one record larger.
C1_CreateIdFresh ==
  [][Answered("create") =>
       /\ res'.body.id # EmptyId
       /\ res'.body.id \notin DOMAIN docStorage
       /\ OthersKept({})
       /\ Cardinality(DOMAIN docStorage') = Cardinality(DOMAIN docStorage) + 1]_vars

\* C2: an Update, whatever its body, leaves the createdAt of every stored
\* record as it was.
C2_CreatedAtImmutable ==
  [][Answered("update") =>
       \A k \in (DOMAIN docStorage) \cap (DOMAIN docStorage') :
         docStorage'[k].createdAt = docStorage[k].createdAt]_vars

\* C3: the record stored under key k has id field k.
C3_IdIsKey == \A k \in DOMAIN docStorage : docStorage[k].id = k

\* C4: Get, Update and Delete of an id the store has no record for answer with
\* the not-found error, never a record, and leave the store as it was.
C4_NotFoundNoMutation ==
  [][(/\ res'.op \in {"get", "update", "delete"}
      /\ res'.id \notin DOMAIN docStorage)
       => /\ res'.status = (IF res'.op = "get" THEN 404 ELSE 400)
          /\ DOMAIN res'.body = {"message", "id"}
          /\ res'.body.id = res'.id
          /\ docStorage' = docStorage]_vars

C4_Witness ==
  /\ res.op \in {"get", "update", "delete"}
  /\ res.status # 200
  /\ res.id \notin DOMAIN docStorage
  /\ docStorage # EmptyMap

\* C5: a successful Update returns the merge of the body over the stored
\* record: the body's fields have the body's values, the fields it omits keep
\* the stored values, and updatedAt is the clock's time even when the body
\* carries an updatedAt.
C5_UpdateMerges ==
  [][Succeeded("update") =>
       LET old == docStorage[res'.id]
           b == res'.reqBody
           r == res'.body
       IN  /\ DOMAIN r = (DOMAIN old) \cup (DOMAIN b) \cup {"updatedAt"}
           /\ \A f \in (DOMAIN b) \ {"updatedAt"} : r[f] = b[f]
           /\ \A f \in (DOMAIN old) \ ((DOMAIN b) \cup {"updatedAt"}) : r[f] = old[f]
           /\ r.updatedAt = clock' \div NanosPerMilli]_vars

C5_Witness ==
  /\ res.op = "update"
  /\ res.status = 200
  /\ res.reqBody = [status |-> "authenticated"]
  /\ "name" \in DOMAIN res.body
  /\ res.body.name = "A"
  /\ res.body.status = "authenticated"
  /\ res.body.updatedAt = 1

\* C6: Get-by-id of k returns the record that the most recent successful
\* Create producing k or Update addressed to k returned, while k has not been
\* deleted since.
C6_ReadsLastWritten ==
  (res.op = "get" /\ res.id \in DOMAIN lastWritten)
    => (res.status = 200 /\ res.body = lastWritten[res.id])

\* C7: after a successful Delete of k the store has no record under k, a
\* Get of k that follows is answered not-found, and the records under the
\* other ids are unchanged.
C7_DeleteRemoves ==
  [][/\ Succeeded("delete") =>
          /\ DOMAIN docStorage' = (DOMAIN docStorage) \ {res'.id}
          /\ OthersKept({res'.id})
     /\ (res.op = "delete" /\ res.status = 200 /\ Answered("get") /\ res'.id = res.id)
          => res'.status = 404]_vars

C7_Witness ==
  /\ res.op = "delete"
  /\ res.status = 200
  /\ res.id \notin DOMAIN docStorage
  /\ docStorage # EmptyMap

\* C8: a Get of the id a Create just returned answers with a record equal to
\* the Create response, and updatedAt is null in both.
C8_CreateThenGet ==
  [][(res.op = "create" /\ Answered("get") /\ res'.id = res.body.id)
       => /\ res'.status = 200
          /\ res'.body = res.body
          /\ res.body.updatedAt = NULL
          /\ res'.body.updatedAt = NULL]_vars

\* C9: two successive successful Updates of the same id with the same body
\* return records that agree on every field except updatedAt.
C9_UpdateIdempotent ==
  [][(/\ res.op = "update" /\ res.status = 200
      /\ Succeeded("update")
      /\ res'.id = res.id
      /\ res'.reqBody = res.reqBody)
       => /\ DOMAIN res'.body = DOMAIN res.body
          /\ \A f \in (DOMAIN res.body) \ {"updatedAt"} : res'.body[f] = res.body[f]]_vars

C9_Witness ==
  /\ again
  /\ res.op = "update"
  /\ res.status = 200
  /\ res.body.updatedAt = 1
  /\ "id" \in DOMAIN res.reqBody
  /\ res.body.id # res.id

\* C10: a successful Update of k leaves the set of stored keys as it was and
\* the record under every key other than k unchanged.
C10_UpdateFrame ==
  [][Succeeded("update") =>
       /\ DOMAIN docStorage' = DOMAIN docStorage
       /\ OthersKept({res'.id})]_vars

====
